---- MODULE Spec2Model ----
(***************************************************************************)
(* Model of the Keba charger's UDP exchange (Keba.client) and of the       *)
(* charger operations of package charger.                                  *)
(*                                                                         *)
(* One call of client is a supervisor (the calling goroutine) and one      *)
(* background goroutine that share the socket conn and the channel         *)
(* doneChan.  The context, the peer, the network and the read deadline's   *)
(* timer are the environment.                                              *)
(***************************************************************************)
EXTENDS Integers, Sequences, FiniteSets, TLC

(* ------------------------------ bounds --------------------------------- *)

\* longest payload the reader yields, in bytes
MaxPayload == 2
\* datagrams the socket's receive queue holds; later ones are dropped
MaxInbox == 1

(* ------------------------ constants of the code ------------------------ *)

udpBufferSize == 1024
\* capacity of doneChan: make(chan error, 1)
ChanCap == 1

(* ------------------------------ values --------------------------------- *)

\* the calls of client the model follows: each has its own frame (conn,
\* doneChan, b, err are locals of the call)
Calls == {1, 2}
\* the call made when client is called once
Solo == {1}

ErrNil == "nil"
AddressResolutionError == "AddressResolutionError"
AssociationError == "AssociationError"
TransmitError == "TransmitError"
ReceiveError == "ReceiveError"
DeadlineExceededError == "DeadlineExceededError"
CancelledError == "CancelledError"
\* what an operation on a closed net.Conn returns
ErrNetClosing == "use of closed network connection"
ErrNotImplemented == "not implemented"

TransportErrors ==
    { AddressResolutionError, AssociationError, TransmitError, ReceiveError,
      DeadlineExceededError, CancelledError, ErrNetClosing }

NoAddr == "<nil>"
\* the address strings a caller passes
Addresses == { "keba:7090", "127.0.0.1:9999", ":-1" }
\* a host that no call dials
Stranger == "10.0.0.66:7090"
\* lengths of the datagrams a peer sends on its own account
ReplyLens == { 0, udpBufferSize + 1 }

\* a count that is not cut to the buffer
NoCut(a, b) == a

Min(a, b) == IF a < b THEN a ELSE b

RECURSIVE SumSeq(_)
SumSeq(s) == IF s = <<>> THEN 0 ELSE Head(s) + SumSeq(Tail(s))

\* net.ResolveUDPAddr("udp", address): a name resolves to IP and port
ResolveUDPAddr(a) ==
    CASE a = "keba:7090"      -> [addr |-> "192.168.0.5:7090", err |-> ErrNil]
      [] a = "127.0.0.1:9999" -> [addr |-> "127.0.0.1:9999", err |-> ErrNil]
      [] OTHER                -> [addr |-> NoAddr, err |-> AddressResolutionError]

(* ------------------------- the charger's type -------------------------- *)

\* func NewKeba(conn string) api.Charger: its parameters and its results
NewKebaParams == << "conn string" >>
NewKebaResults == << "api.Charger" >>

\* the methods declared on *Keba
KebaMethods == { "client", "Status", "Enabled", "Enable", "MaxCurrent" }

\* wb, err := NewKeba("foo", RFID{}, 0): the arguments and the results the
\* test of the charger uses
TestKebaArgs == << "foo", "RFID{}", "0" >>
TestKebaResults == << "wb", "err" >>

\* the interfaces of package api the test asserts, by the methods they ask for
Charger == { "Status", "Enabled", "Enable", "MaxCurrent" }
MeterEnergy == { "TotalEnergy" }
MeterCurrent == { "Currents" }
ChargeRater == { "ChargedEnergy" }

\* the type assertion wb.(I) on a value with the given methods
Implements(methods, iface) == iface \subseteq methods

(* ------------------------------ state ---------------------------------- *)

VARIABLES
    pc,         \* supervisor's position in client
    ctx,        \* TRUE once ctx.Done() is closed
    address,    \* argument address
    payload,    \* bytes the reader yields in all
    raddr,      \* resolved address
    conn,       \* "none", "open", "closed"
    doneChan,   \* buffered channel of errors
    err,        \* the supervisor's variable err
    ret,        \* the values client has returned to its caller, in order
    bgpc,       \* background goroutine's position
    remaining,  \* bytes the reader has not yet yielded
    sent,       \* lengths of the datagrams written to the socket, in order
    armed,      \* SetReadDeadline has succeeded
    inbox,      \* the socket's receive queue
    rcvd,       \* what ReadFrom returned: nRead, addr
    bgerr,      \* the goroutine's variable err
    copies,     \* calls of io.Copy
    reads,      \* calls of conn.ReadFrom that have returned
    sends,      \* sends on doneChan
    closes,     \* calls of conn.Close
    failedAt,   \* the goroutine's step that returned an error, if any
    first,      \* which came first: "cancel" (ctx) or "done" (the send)
    strayed,    \* a datagram of another sender was addressed to the socket
    last        \* the last charger operation and what it returned

callVars == << pc, ctx, address, payload, raddr, conn, doneChan, err, ret >>
bgVars == << bgpc, remaining, sent, armed, inbox, rcvd, bgerr >>
histVars == << copies, reads, sends, closes, failedAt, first >>
vars == << callVars, bgVars, histVars, strayed, last >>

Init ==
    /\ pc = [c \in Calls |-> "idle"]
    /\ ctx = [c \in Calls |-> FALSE]
    /\ address = [c \in Calls |-> NoAddr]
    /\ payload = [c \in Calls |-> 0]
    /\ raddr = [c \in Calls |-> NoAddr]
    /\ conn = [c \in Calls |-> "none"]
    /\ doneChan = [c \in Calls |-> <<>>]
    /\ err = [c \in Calls |-> ErrNil]
    /\ ret = [c \in Calls |-> <<>>]
    /\ bgpc = [c \in Calls |-> "none"]
    /\ remaining = [c \in Calls |-> 0]
    /\ sent = [c \in Calls |-> <<>>]
    /\ armed = [c \in Calls |-> FALSE]
    /\ inbox = [c \in Calls |-> <<>>]
    /\ rcvd = [c \in Calls |-> <<>>]
    /\ bgerr = [c \in Calls |-> ErrNil]
    /\ copies = [c \in Calls |-> 0]
    /\ reads = [c \in Calls |-> 0]
    /\ sends = [c \in Calls |-> 0]
    /\ closes = [c \in Calls |-> 0]
    /\ failedAt = [c \in Calls |-> "none"]
    /\ first = [c \in Calls |-> "none"]
    /\ strayed = [c \in Calls |-> FALSE]
    /\ last = [op |-> "NewKeba", val |-> "", err |-> ErrNil]

(* --------------------------- the supervisor ---------------------------- *)

\* a caller invokes m.client(ctx, address, reader)
Call(c) ==
    /\ pc[c] = "idle"
    /\ \E a \in Addresses, n \in 0..MaxPayload :
          /\ address' = [address EXCEPT ![c] = a]
          /\ payload' = [payload EXCEPT ![c] = n]
          /\ remaining' = [remaining EXCEPT ![c] = n]
    /\ pc' = [pc EXCEPT ![c] = "resolve"]
    /\ UNCHANGED << ctx, raddr, conn, doneChan, err, ret, bgpc, sent, armed,
                    inbox, rcvd, bgerr, histVars, strayed, last >>

\* the value client hands to its caller: the function's results are (error)
Results(e) == [err |-> e]

\* return err, on a path before the defer statement
ReturnEarly(c, e) ==
    /\ err' = [err EXCEPT ![c] = e]
    /\ ret' = [ret EXCEPT ![c] = Append(@, Results(e))]
    /\ pc' = [pc EXCEPT ![c] = "returned"]

\* Resolve without the check of err
ResolveUnchecked(c) ==
    /\ pc[c] = "resolve"
    /\ raddr' = [raddr EXCEPT ![c] = ResolveUDPAddr(address[c]).addr]
    /\ pc' = [pc EXCEPT ![c] = "dial"]
    /\ UNCHANGED << ctx, address, payload, conn, doneChan, err, ret, bgVars,
                    histVars, strayed, last >>

\* raddr, err := net.ResolveUDPAddr("udp", address); if err != nil { return err }
Resolve(c) ==
    /\ pc[c] = "resolve"
    /\ LET r == ResolveUDPAddr(address[c]) IN
          IF r.err # ErrNil
          THEN /\ ReturnEarly(c, r.err)
               /\ UNCHANGED raddr
          ELSE /\ raddr' = [raddr EXCEPT ![c] = r.addr]
               /\ pc' = [pc EXCEPT ![c] = "dial"]
               /\ UNCHANGED << err, ret >>
    /\ UNCHANGED << ctx, address, payload, conn, doneChan, bgVars, histVars,
                    strayed, last >>

\* conn, err := net.DialUDP("udp", nil, raddr) succeeds; defer conn.Close();
\* doneChan := make(chan error, 1)
DialOk(c) ==
    /\ pc[c] = "dial"
    /\ conn' = [conn EXCEPT ![c] = "open"]
    /\ pc' = [pc EXCEPT ![c] = "spawn"]
    /\ UNCHANGED << ctx, address, payload, raddr, doneChan, err, ret, bgVars,
                    histVars, strayed, last >>

\* DialFail without the return of err
DialFailUnchecked(c) ==
    /\ pc[c] = "dial"
    /\ err' = [err EXCEPT ![c] = AssociationError]
    /\ pc' = [pc EXCEPT ![c] = "spawn"]
    /\ UNCHANGED << ctx, address, payload, raddr, conn, doneChan, ret, bgVars,
                    histVars, strayed, last >>

\* net.DialUDP fails; return err
DialFail(c) ==
    /\ pc[c] = "dial"
    /\ ReturnEarly(c, AssociationError)
    /\ UNCHANGED << ctx, address, payload, raddr, conn, doneChan, bgVars,
                    histVars, strayed, last >>

\* go func() { n, err := io.Copy(conn, reader) ...
Spawn(c) ==
    /\ pc[c] = "spawn"
    /\ bgpc' = [bgpc EXCEPT ![c] = "copy"]
    /\ copies' = [copies EXCEPT ![c] = @ + 1]
    /\ pc' = [pc EXCEPT ![c] = "select"]
    /\ UNCHANGED << ctx, address, payload, raddr, conn, doneChan, err, ret,
                    remaining, sent, armed, inbox, rcvd, bgerr, reads, sends,
                    closes, failedAt, first, strayed, last >>

\* a select without the case <-ctx.Done()
SelectWithoutCancel(c) ==
    /\ FALSE
    /\ UNCHANGED vars

\* select: case <-ctx.Done(): err = ctx.Err()
SelectCancelled(c) ==
    /\ pc[c] = "select"
    /\ ctx[c]
    /\ err' = [err EXCEPT ![c] = CancelledError]
    /\ pc' = [pc EXCEPT ![c] = "return"]
    /\ UNCHANGED << ctx, address, payload, raddr, conn, doneChan, ret, bgVars,
                    histVars, strayed, last >>

\* SelectDone with the received value not assigned: case <-doneChan
SelectDoneStale(c) ==
    /\ pc[c] = "select"
    /\ doneChan[c] # <<>>
    /\ doneChan' = [doneChan EXCEPT ![c] = Tail(@)]
    /\ pc' = [pc EXCEPT ![c] = "return"]
    /\ UNCHANGED << ctx, address, payload, raddr, conn, err, ret, bgVars,
                    histVars, strayed, last >>

\* select: case err = <-doneChan
SelectDone(c) ==
    /\ pc[c] = "select"
    /\ doneChan[c] # <<>>
    /\ err' = [err EXCEPT ![c] = Head(doneChan[c])]
    /\ doneChan' = [doneChan EXCEPT ![c] = Tail(@)]
    /\ pc' = [pc EXCEPT ![c] = "return"]
    /\ UNCHANGED << ctx, address, payload, raddr, conn, ret, bgVars, histVars,
                    strayed, last >>

\* Return of ctx.Err() in place of err
ReturnCtxErr(c) ==
    /\ pc[c] = "return"
    /\ conn' = [conn EXCEPT ![c] = "closed"]
    /\ closes' = [closes EXCEPT ![c] = @ + 1]
    /\ ret' = [ret EXCEPT ![c] =
                  Append(@, [err |-> IF ctx[c] THEN CancelledError ELSE ErrNil])]
    /\ pc' = [pc EXCEPT ![c] = "returned"]
    /\ UNCHANGED << ctx, address, payload, raddr, doneChan, err, bgVars,
                    copies, reads, sends, failedAt, first, strayed, last >>

\* Return with the socket closed on the completion path only
ReturnLeak(c) ==
    /\ pc[c] = "return"
    /\ conn' = [conn EXCEPT ![c] = IF err[c] = CancelledError THEN @ ELSE "closed"]
    /\ closes' = [closes EXCEPT ![c] = IF err[c] = CancelledError THEN @ ELSE @ + 1]
    /\ ret' = [ret EXCEPT ![c] = Append(@, [err |-> err[c]])]
    /\ pc' = [pc EXCEPT ![c] = "returned"]
    /\ UNCHANGED << ctx, address, payload, raddr, doneChan, err, bgVars,
                    copies, reads, sends, failedAt, first, strayed, last >>

\* Return with one socket shared by the calls: the Close of one call closes it
\* for all of them
ReturnClosesAll(c) ==
    /\ pc[c] = "return"
    /\ conn' = [d \in Calls |-> IF d = c \/ conn[d] = "open" THEN "closed" ELSE conn[d]]
    /\ closes' = [closes EXCEPT ![c] = @ + 1]
    /\ ret' = [ret EXCEPT ![c] = Append(@, Results(err[c]))]
    /\ pc' = [pc EXCEPT ![c] = "returned"]
    /\ UNCHANGED << ctx, address, payload, raddr, doneChan, err, bgVars,
                    copies, reads, sends, failedAt, first, strayed, last >>

\* return err, with the deferred conn.Close()
Return(c) ==
    /\ pc[c] = "return"
    /\ conn' = [conn EXCEPT ![c] = "closed"]
    /\ closes' = [closes EXCEPT ![c] = @ + 1]
    /\ ret' = [ret EXCEPT ![c] = Append(@, Results(err[c]))]
    /\ pc' = [pc EXCEPT ![c] = "returned"]
    /\ UNCHANGED << ctx, address, payload, raddr, doneChan, err, bgVars,
                    copies, reads, sends, failedAt, first, strayed, last >>

Supervisor(c) ==
    \/ Resolve(c)
    \/ DialOk(c)
    \/ DialFail(c)
    \/ Spawn(c)
    \/ SelectCancelled(c)
    \/ SelectDone(c)
    \/ Return(c)

(* ----------------------- the background goroutine ---------------------- *)

\* io.Copy(conn, reader): one chunk read from the reader is written to the
\* socket as one datagram; nothing is written when the reader yields nothing
CopyWrite(c) ==
    /\ bgpc[c] = "copy"
    /\ remaining[c] > 0
    /\ conn[c] = "open"
    /\ \E k \in 1..remaining[c] :
          /\ sent' = [sent EXCEPT ![c] = Append(@, k)]
          /\ remaining' = [remaining EXCEPT ![c] = @ - k]
    /\ UNCHANGED << callVars, bgpc, armed, inbox, rcvd, bgerr, histVars,
                    strayed, last >>

\* if err != nil { doneChan <- err; return }, after a step that failed
Failed(c, step, e) ==
    /\ bgerr' = [bgerr EXCEPT ![c] = e]
    /\ failedAt' = [failedAt EXCEPT ![c] = step]
    /\ bgpc' = [bgpc EXCEPT ![c] = "send"]

\* CopyFail with the goroutine ending without its send
CopyFailSilent(c) ==
    /\ bgpc[c] = "copy"
    /\ conn[c] = "open"
    /\ remaining[c] > 0
    /\ bgerr' = [bgerr EXCEPT ![c] = TransmitError]
    /\ failedAt' = [failedAt EXCEPT ![c] = "copy"]
    /\ bgpc' = [bgpc EXCEPT ![c] = "done"]
    /\ UNCHANGED << callVars, remaining, sent, armed, inbox, rcvd, copies,
                    reads, sends, closes, first, strayed, last >>

\* io.Copy returns the error of a write the network refused; a payload is
\* a finite sequence of bytes, and reading it does not fail
CopyFail(c) ==
    /\ bgpc[c] = "copy"
    /\ conn[c] = "open"
    /\ remaining[c] > 0
    /\ Failed(c, "copy", TransmitError)
    /\ UNCHANGED << callVars, remaining, sent, armed, inbox, rcvd, copies,
                    reads, sends, closes, first, strayed, last >>

\* io.Copy returns the error of a write to the socket the supervisor has
\* closed
CopyClosed(c) ==
    /\ bgpc[c] = "copy"
    /\ conn[c] = "closed"
    /\ remaining[c] > 0
    /\ Failed(c, "copy", ErrNetClosing)
    /\ UNCHANGED << callVars, remaining, sent, armed, inbox, rcvd, copies,
                    reads, sends, closes, first, strayed, last >>

\* CopyDone taken after any write, before the reader's EOF
CopyDoneEarly(c) ==
    /\ bgpc[c] = "copy"
    /\ bgpc' = [bgpc EXCEPT ![c] = "arm"]
    /\ UNCHANGED << callVars, remaining, sent, armed, inbox, rcvd, bgerr,
                    histVars, strayed, last >>

\* io.Copy returns nil at the reader's EOF; the byte count is logged
CopyDone(c) ==
    /\ bgpc[c] = "copy"
    /\ remaining[c] = 0
    /\ bgpc' = [bgpc EXCEPT ![c] = "arm"]
    /\ UNCHANGED << callVars, remaining, sent, armed, inbox, rcvd, bgerr,
                    histVars, strayed, last >>

\* SetReadDeadline left out: ReadFrom is called with no deadline set
SetReadDeadlineSkipped(c) ==
    /\ bgpc[c] = "arm"
    /\ bgpc' = [bgpc EXCEPT ![c] = "read"]
    /\ UNCHANGED << callVars, remaining, sent, armed, inbox, rcvd, bgerr,
                    histVars, strayed, last >>

\* buffer := make([]byte, udpBufferSize);
\* err = conn.SetReadDeadline(time.Now().Add(updTimeout));
\* if err != nil { doneChan <- err; return }
SetReadDeadline(c) ==
    /\ bgpc[c] = "arm"
    /\ IF conn[c] = "open"
       THEN /\ armed' = [armed EXCEPT ![c] = TRUE]
            /\ bgpc' = [bgpc EXCEPT ![c] = "read"]
            /\ UNCHANGED << bgerr, failedAt >>
       ELSE /\ Failed(c, "arm", ErrNetClosing)
            /\ UNCHANGED armed
    /\ UNCHANGED << callVars, remaining, sent, inbox, rcvd, copies, reads,
                    sends, closes, first, strayed, last >>

\* nRead, addr, err := conn.ReadFrom(buffer) returns a datagram, cut to the
\* buffer; it is logged and nil is the value to send
ReadReply(c) ==
    /\ bgpc[c] = "read"
    /\ conn[c] = "open"
    /\ inbox[c] # <<>>
    /\ LET d == Head(inbox[c]) IN
          rcvd' = [rcvd EXCEPT ![c] =
                      Append(@, [nRead |-> Min(d.len, udpBufferSize),
                                 addr |-> d.from, len |-> d.len, echo |-> d.echo])]
    /\ inbox' = [inbox EXCEPT ![c] = Tail(@)]
    /\ reads' = [reads EXCEPT ![c] = @ + 1]
    /\ bgerr' = [bgerr EXCEPT ![c] = ErrNil]
    /\ bgpc' = [bgpc EXCEPT ![c] = "send"]
    /\ UNCHANGED << callVars, remaining, sent, armed, copies, sends, closes,
                    failedAt, first, strayed, last >>

\* ReadTimeout with a second ReadFrom after the deadline has passed
ReadTimeoutRetry(c) ==
    /\ bgpc[c] = "read"
    /\ armed[c]
    /\ conn[c] = "open"
    /\ inbox[c] = <<>>
    /\ reads' = [reads EXCEPT ![c] = @ + 1]
    /\ UNCHANGED << callVars, bgVars, copies, sends, closes, failedAt, first,
                    strayed, last >>

\* conn.ReadFrom returns the timeout error: the read deadline has passed
\* with nothing to read; if err != nil { doneChan <- err; return }
ReadTimeout(c) ==
    /\ bgpc[c] = "read"
    /\ armed[c]
    /\ conn[c] = "open"
    /\ inbox[c] = <<>>
    /\ reads' = [reads EXCEPT ![c] = @ + 1]
    /\ Failed(c, "read", DeadlineExceededError)
    /\ UNCHANGED << callVars, remaining, sent, armed, inbox, rcvd, copies,
                    sends, closes, first, strayed, last >>

\* conn.ReadFrom returns an error the network reported
ReadFail(c) ==
    /\ bgpc[c] = "read"
    /\ conn[c] = "open"
    /\ reads' = [reads EXCEPT ![c] = @ + 1]
    /\ Failed(c, "read", ReceiveError)
    /\ UNCHANGED << callVars, remaining, sent, armed, inbox, rcvd, copies,
                    sends, closes, first, strayed, last >>

\* conn.ReadFrom returns the error of a read on the socket the supervisor
\* has closed: Close unblocks a pending read
ReadClosed(c) ==
    /\ bgpc[c] = "read"
    /\ conn[c] = "closed"
    /\ reads' = [reads EXCEPT ![c] = @ + 1]
    /\ Failed(c, "read", ErrNetClosing)
    /\ UNCHANGED << callVars, remaining, sent, armed, inbox, rcvd, copies,
                    sends, closes, first, strayed, last >>

\* Send without the return after the send of io.Copy's error
SendNoReturn(c) ==
    /\ bgpc[c] = "send"
    /\ Len(doneChan[c]) < ChanCap
    /\ doneChan' = [doneChan EXCEPT ![c] = Append(@, bgerr[c])]
    /\ sends' = [sends EXCEPT ![c] = @ + 1]
    /\ first' = [first EXCEPT ![c] = IF @ = "none" THEN "done" ELSE @]
    /\ bgpc' = [bgpc EXCEPT ![c] = IF failedAt[c] = "copy" THEN "arm" ELSE "done"]
    /\ UNCHANGED << pc, ctx, address, payload, raddr, conn, err, ret, remaining,
                    sent, armed, inbox, rcvd, bgerr, copies, reads, closes,
                    failedAt, strayed, last >>

\* Send on a channel without buffer: it waits for the supervisor's receive
SendUnbuffered(c) ==
    /\ bgpc[c] = "send"
    /\ pc[c] = "select"
    /\ Len(doneChan[c]) < ChanCap
    /\ doneChan' = [doneChan EXCEPT ![c] = Append(@, bgerr[c])]
    /\ sends' = [sends EXCEPT ![c] = @ + 1]
    /\ first' = [first EXCEPT ![c] = IF @ = "none" THEN "done" ELSE @]
    /\ bgpc' = [bgpc EXCEPT ![c] = "done"]
    /\ UNCHANGED << pc, ctx, address, payload, raddr, conn, err, ret, remaining,
                    sent, armed, inbox, rcvd, bgerr, copies, reads, closes,
                    failedAt, strayed, last >>

\* doneChan <- err (or doneChan <- nil), then the goroutine ends; the send
\* blocks while the channel's buffer is full
Send(c) ==
    /\ bgpc[c] = "send"
    /\ Len(doneChan[c]) < ChanCap
    /\ doneChan' = [doneChan EXCEPT ![c] = Append(@, bgerr[c])]
    /\ sends' = [sends EXCEPT ![c] = @ + 1]
    /\ first' = [first EXCEPT ![c] = IF @ = "none" THEN "done" ELSE @]
    /\ bgpc' = [bgpc EXCEPT ![c] = "done"]
    /\ UNCHANGED << pc, ctx, address, payload, raddr, conn, err, ret, remaining,
                    sent, armed, inbox, rcvd, bgerr, copies, reads, closes,
                    failedAt, strayed, last >>

\* the steps the goroutine takes whenever it is scheduled: the timer of the
\* read deadline fires, and Close unblocks a pending operation
Background(c) ==
    \/ CopyWrite(c)
    \/ CopyClosed(c)
    \/ CopyDone(c)
    \/ SetReadDeadline(c)
    \/ ReadReply(c)
    \/ ReadTimeout(c)
    \/ ReadClosed(c)
    \/ Send(c)

\* the failures the reader and the network may or may not produce
Fault(c) ==
    \/ CopyFail(c)
    \/ ReadFail(c)

(* --------------------------- the environment --------------------------- *)

\* the caller's context is cancelled: ctx.Done() is closed.  client reads
\* ctx in its select only, so a later cancellation changes nothing
Cancel(c) ==
    /\ pc[c] \notin { "idle", "return", "returned" }
    /\ ~ctx[c]
    /\ ctx' = [ctx EXCEPT ![c] = TRUE]
    /\ first' = [first EXCEPT ![c] = IF @ = "none" THEN "cancel" ELSE @]
    /\ UNCHANGED << pc, address, payload, raddr, conn, doneChan, err, ret,
                    bgVars, copies, reads, sends, closes, failedAt,
                    strayed, last >>

\* the dialed peer sends a datagram to the socket: the echo of one it was
\* sent, or a datagram of its own
PeerSend(c) ==
    /\ conn[c] = "open"
    /\ Len(inbox[c]) < MaxInbox
    /\ \E d \in { [from |-> raddr[c], len |-> sent[c][i], echo |-> TRUE] :
                      i \in 1..Len(sent[c]) }
             \cup { [from |-> raddr[c], len |-> n, echo |-> FALSE] : n \in ReplyLens } :
          inbox' = [inbox EXCEPT ![c] = Append(@, d)]
    /\ UNCHANGED << callVars, bgpc, remaining, sent, armed, rcvd, bgerr,
                    histVars, strayed, last >>

\* a socket that takes datagrams from any sender, as one not connected does
AcceptsAny(c, d) == TRUE

\* net.DialUDP("udp", nil, raddr) connects the socket: it takes only the
\* datagrams whose sender is raddr
Accepts(c, d) == d.from = raddr[c]

\* a host other than the dialed peer sends a datagram to the socket's port
StrangerSend(c) ==
    /\ conn[c] = "open"
    /\ strayed' = [strayed EXCEPT ![c] = TRUE]
    /\ \E n \in ReplyLens :
          LET d == [from |-> Stranger, len |-> n, echo |-> FALSE] IN
              inbox' = [inbox EXCEPT ![c] =
                           IF Accepts(c, d) /\ Len(@) < MaxInbox
                           THEN Append(@, d) ELSE @]
    /\ UNCHANGED << callVars, bgpc, remaining, sent, armed, rcvd, bgerr,
                    histVars, last >>

(* ------------------------ the charger operations ----------------------- *)

\* Status answered with the outcome of an exchange
StatusOverUDP ==
    /\ last' = [op |-> "Status", val |-> "A", err |-> err[CHOOSE c \in Calls : TRUE]]
    /\ UNCHANGED << callVars, bgVars, histVars, strayed >>

\* func (m *Keba) Status() (api.ChargeStatus, error)
Status ==
    /\ last' = [op |-> "Status", val |-> "A", err |-> ErrNotImplemented]
    /\ UNCHANGED << callVars, bgVars, histVars, strayed >>

\* func (m *Keba) Enabled() (bool, error)
Enabled ==
    /\ last' = [op |-> "Enabled", val |-> "false", err |-> ErrNotImplemented]
    /\ UNCHANGED << callVars, bgVars, histVars, strayed >>

\* func (m *Keba) Enable(enable bool) error
Enable(enable) ==
    /\ last' = [op |-> "Enable", val |-> "", err |-> ErrNotImplemented]
    /\ UNCHANGED << callVars, bgVars, histVars, strayed >>

\* func (m *Keba) MaxCurrent(current int64) error
MaxCurrent(current) ==
    /\ last' = [op |-> "MaxCurrent", val |-> "", err |-> ErrNotImplemented]
    /\ UNCHANGED << callVars, bgVars, histVars, strayed >>

\* currents a caller asks for, in A
Currents == { 0, 6, 16 }

(* --------------------------- specifications ---------------------------- *)

Next ==
    \/ \E c \in Solo : Call(c)
    \/ \E c \in Solo : Supervisor(c)
    \/ \E c \in Solo : Background(c)
    \/ \E c \in Solo : Fault(c)
    \/ \E c \in Solo : Cancel(c)
    \/ \E c \in Solo : PeerSend(c)
    \/ \E c \in Solo : StrangerSend(c)
    \/ Status
    \/ Enabled
    \/ \E enable \in BOOLEAN : Enable(enable)
    \/ \E current \in Currents : MaxCurrent(current)

Spec == Init /\ [][Next]_vars

\* the Go scheduler runs every runnable goroutine; the read deadline's timer
\* fires; the context, the peer and the callers are under no obligation
FairSpec ==
    /\ Spec
    /\ \A c \in Calls : WF_vars(Supervisor(c))
    /\ \A c \in Calls : WF_vars(Background(c))

\* the supervisor alone is scheduled fairly
SupervisorFairSpec ==
    /\ Spec
    /\ \A c \in Calls : WF_vars(Supervisor(c))

\* the peer both calls of a two-call run dial
EchoPeer == "keba:7090"

\* client is called twice on one charger, in any interleaving of the two
\* calls: both dial the same peer, the first with an empty payload and the
\* second with one byte
NextTwo ==
    \/ \E c \in Calls : Call(c) /\ address'[c] = EchoPeer /\ payload'[c] = c - 1
    \/ \E c \in Calls : Supervisor(c)
    \/ \E c \in Calls : Background(c)
    \/ \E c \in Calls : Fault(c)
    \/ \E c \in Calls : Cancel(c)
    \/ \E c \in Calls : PeerSend(c)

TwoCallSpec == Init /\ [][NextTwo]_vars

(* ------------------------------ claims --------------------------------- *)

\* the goroutine has passed io.Copy without an error
CopySucceeded(c) == bgpc[c] \in { "arm", "read", "send", "done" } /\ failedAt[c] # "copy"

\* no datagram has reached the socket so far
NoReplyYet(c) == inbox[c] = <<>> /\ rcvd[c] = <<>>

\* C1: the socket is never closed while the background goroutine has not
\* finished: whenever conn is closed, the goroutine has ended.
C1_NotClosedWhileBackgroundRuns ==
    \A c \in Calls : conn[c] = "closed" => bgpc[c] = "done"

\* C2: a call that opened a socket has closed it, exactly once, when it has
\* returned, whatever it returns; no call has returned with its socket open.
C2_ClosedOnEveryExit ==
    \A c \in Calls :
        /\ Len(ret[c]) > 0 => conn[c] # "open"
        /\ (Len(ret[c]) > 0 /\ conn[c] # "none") => closes[c] = 1
        /\ closes[c] > 0 => pc[c] = "returned"

C2_Witness ==
    \E c \in Calls :
        /\ ret[c] = << [err |-> CancelledError] >>
        /\ conn[c] = "closed"
        /\ bgpc[c] = "read"

\* C3: a call returns one outcome, no more, and its goroutine sends on
\* doneChan at most once, so that the channel never holds more than its one
\* slot.
C3_OneOutcomeOneSend ==
    \A c \in Calls :
        /\ Len(ret[c]) <= 1
        /\ pc[c] = "returned" <=> Len(ret[c]) = 1
        /\ sends[c] <= 1
        /\ Len(doneChan[c]) <= 1
        /\ bgpc[c] = "done" => sends[c] = 1

C3_Witness ==
    \E c \in Calls :
        /\ ret[c] = << [err |-> TransmitError] >>
        /\ sends[c] = 1
        /\ bgpc[c] = "done"

\* C4: the read deadline is armed only after io.Copy has written the whole
\* payload without an error, ReadFrom is called only after the deadline was
\* armed, and after a failed write or a failed arming no ReadFrom is called.
C4_WriteThenArmThenRead ==
    \A c \in Calls :
        /\ (armed[c] \/ bgpc[c] \in { "arm", "read" }) =>
              /\ remaining[c] = 0
              /\ SumSeq(sent[c]) = payload[c]
              /\ failedAt[c] \notin { "copy", "arm" }
        /\ (bgpc[c] = "read" \/ reads[c] > 0) => armed[c]
        /\ failedAt[c] \in { "copy", "arm" } =>
              /\ reads[c] = 0
              /\ ~armed[c]
              /\ bgpc[c] \in { "send", "done" }

C4_Witness ==
    \E c \in Calls :
        /\ Len(sent[c]) = 2
        /\ armed[c]
        /\ reads[c] = 1

\* C5, as claimed: a call that reached its select and whose context was
\* cancelled before the goroutine sent anything and before any reply arrived
\* returns the cancellation error.
C5_CancelBeforeReplyReturnsCancelled ==
    \A c \in Calls :
        (pc[c] = "returned" /\ closes[c] = 1 /\ first[c] = "cancel" /\ NoReplyYet(c))
            => ret[c] = << [err |-> CancelledError] >>

\* C5, amended: when the select resolves with the context cancelled and
\* doneChan empty, err is the cancellation error; a cancelled call returns
\* either the cancellation error or the value its goroutine had already
\* sent; it returns without the goroutine taking another step, and its
\* socket is closed when it has returned.
C5_CancelledOrAlreadyDelivered ==
    /\ [][\A c \in Calls :
             (pc[c] = "select" /\ pc'[c] = "return" /\ ctx[c] /\ doneChan[c] = <<>>)
                 => err'[c] = CancelledError]_vars
    /\ [](\A c \in Calls :
             (pc[c] = "returned" /\ closes[c] = 1 /\ ctx[c]) =>
                 /\ conn[c] = "closed"
                 /\ \/ ret[c] = << [err |-> CancelledError] >>
                    \/ bgpc[c] = "done" /\ ret[c] = << [err |-> bgerr[c]] >>)
    /\ \A c \in Calls :
          (ctx[c] /\ pc[c] = "select") ~> (pc[c] = "returned" /\ conn[c] = "closed")

C5_Witness ==
    \E c \in Calls :
        /\ first[c] = "cancel"
        /\ NoReplyYet(c)
        /\ bgpc[c] = "read"
        /\ ret[c] = << [err |-> CancelledError] >>
        /\ conn[c] = "closed"

\* C6, as claimed: a call that has returned, whose write succeeded, whose
\* context was not cancelled and whose peer sent nothing has returned the
\* deadline error, with its socket closed.
C6_SilentPeerEndsInDeadline ==
    \A c \in Calls :
        (pc[c] = "returned" /\ ~ctx[c] /\ CopySucceeded(c) /\ NoReplyYet(c)) =>
            /\ ret[c] = << [err |-> DeadlineExceededError] >>
            /\ conn[c] = "closed"

\* C6, amended: once the write has succeeded the call returns in the end,
\* with its socket closed; when the context was not cancelled, the peer sent
\* nothing and ReadFrom reported no failure of the network, it returns the
\* deadline error.
C6_SilentPeerEndsInDeadlineUnlessReadFails ==
    /\ [](\A c \in Calls :
             (pc[c] = "returned" /\ ~ctx[c] /\ CopySucceeded(c) /\ NoReplyYet(c)
                 /\ bgerr[c] # ReceiveError) =>
                     /\ ret[c] = << [err |-> DeadlineExceededError] >>
                     /\ conn[c] = "closed")
    /\ \A c \in Calls :
          CopySucceeded(c) ~> (pc[c] = "returned" /\ conn[c] = "closed")

C6_Witness ==
    \E c \in Calls :
        /\ ~ctx[c]
        /\ CopySucceeded(c)
        /\ NoReplyYet(c)
        /\ ret[c] = << [err |-> DeadlineExceededError] >>
        /\ conn[c] = "closed"

\* C7: a call that returns success after the peer echoed the payload returns
\* to its caller the count of bytes received, equal to the echoed length,
\* and the sender's address, equal to the dialed peer's.
C7_SuccessReturnsCountAndSender ==
    \A c \in Calls :
        (pc[c] = "returned" /\ err[c] = ErrNil /\ rcvd[c] # <<>> /\ Head(rcvd[c]).echo) =>
            LET r == Head(ret[c]) IN
                /\ "nRead" \in DOMAIN r
                /\ "addr" \in DOMAIN r
                /\ r.nRead = Head(rcvd[c]).len
                /\ r.addr = raddr[c]

\* C8: a call whose address does not resolve returns the resolution error,
\* and in it no socket is opened, no goroutine started, nothing written,
\* nothing read and nothing closed.
C8_UnresolvableStopsAtOnce ==
    \A c \in Calls :
        (pc[c] # "idle" /\ ResolveUDPAddr(address[c]).err # ErrNil) =>
            /\ pc[c] \in { "resolve", "returned" }
            /\ pc[c] = "returned" => ret[c] = << [err |-> AddressResolutionError] >>
            /\ conn[c] = "none"
            /\ bgpc[c] = "none"
            /\ copies[c] = 0
            /\ sent[c] = <<>>
            /\ reads[c] = 0
            /\ closes[c] = 0

C8_Witness ==
    \E c \in Calls :
        /\ address[c] = ":-1"
        /\ pc[c] = "returned"
        /\ ret[c] = << [err |-> AddressResolutionError] >>

\* C9, as claimed: a call whose goroutine has written the payload has
\* written to the socket exactly once, and has called ReadFrom at most once.
C9_ExactlyOneWrite ==
    \A c \in Calls :
        CopySucceeded(c) => (Len(sent[c]) = 1 /\ reads[c] <= 1)

\* C9, amended: a call that starts its goroutine calls io.Copy once and
\* ReadFrom at most once; io.Copy writes every byte of the payload at most
\* once, one datagram for each chunk the reader yields and none for an
\* empty payload; after a failed step nothing is written or read again.
C9_OneCopyAtMostOneRead ==
    \A c \in Calls :
        /\ copies[c] = (IF bgpc[c] = "none" THEN 0 ELSE 1)
        /\ reads[c] <= 1
        /\ SumSeq(sent[c]) + remaining[c] = payload[c]
        /\ Len(sent[c]) <= payload[c]
        /\ CopySucceeded(c) => SumSeq(sent[c]) = payload[c]
        /\ failedAt[c] # "none" => bgpc[c] \in { "send", "done" }
        /\ bgpc[c] \in { "send", "done" } => reads[c] = (IF failedAt[c] \in { "copy", "arm" } THEN 0 ELSE 1)

C9_Witness ==
    \E c \in Calls :
        /\ payload[c] = 0
        /\ sent[c] = <<>>
        /\ CopySucceeded(c)
        /\ reads[c] = 1
        /\ bgpc[c] = "done"

\* C10: Status, Enabled, Enable and MaxCurrent return the error 'not
\* implemented', never an error of the transport, whatever their argument
\* and whatever the state, and they leave every exchange as it is.
C10_NotImplemented ==
    /\ [](last.op # "NewKeba" =>
             (last.err = ErrNotImplemented /\ last.err \notin TransportErrors))
    /\ [][last' # last =>
             /\ last'.op \in { "Status", "Enabled", "Enable", "MaxCurrent" }
             /\ last'.err = ErrNotImplemented
             /\ UNCHANGED << callVars, bgVars, histVars, strayed >>]_vars

C10_Witness ==
    /\ last.op = "Status"
    /\ \E c \in Calls : pc[c] = "returned" /\ err[c] = DeadlineExceededError

\* C11: NewKeba takes a connection string, RFID settings and a timeout and
\* returns a charger and no error, and the charger has, besides the methods
\* of a charger, those of MeterEnergy, MeterCurrent and ChargeRater.
C11_NewKebaOffersMeters ==
    last.op = "NewKeba" =>
        /\ Len(NewKebaParams) = Len(TestKebaArgs)
        /\ Len(NewKebaResults) = Len(TestKebaResults)
        /\ last.err = ErrNil
        /\ Implements(KebaMethods, Charger)
        /\ Implements(KebaMethods, MeterEnergy)
        /\ Implements(KebaMethods, MeterCurrent)
        /\ Implements(KebaMethods, ChargeRater)

\* C12: the goroutine of a call ends, also after the supervisor has returned
\* on cancellation: its send on doneChan never finds the buffer full.
C12_BackgroundTerminates ==
    /\ [](\A c \in Calls : bgpc[c] = "send" => Len(doneChan[c]) < ChanCap)
    /\ \A c \in Calls : (bgpc[c] # "none") ~> (bgpc[c] = "done")

C12_Witness ==
    \E c \in Calls :
        /\ ret[c] = << [err |-> CancelledError] >>
        /\ bgpc[c] = "done"
        /\ doneChan[c] = << bgerr[c] >>

\* the values the supervisor has received from doneChan
Receives(c) == sends[c] - Len(doneChan[c])

\* C13, as claimed: once the supervisor and the goroutine of a call have
\* both finished, doneChan has been written once and read once.
C13_WrittenOnceReadOnce ==
    \A c \in Calls :
        (pc[c] = "returned" /\ bgpc[c] = "done") =>
            (sends[c] = 1 /\ Receives(c) = 1)

\* C13, amended: once both have finished, doneChan has been written once,
\* and read once when the call returned the goroutine's value, and not at
\* all when it returned the cancellation error: the value then stays in the
\* buffer.
C13_WrittenOnceReadAtMostOnce ==
    \A c \in Calls :
        /\ Receives(c) \in { 0, 1 }
        /\ (pc[c] = "returned" /\ bgpc[c] = "done") =>
              /\ sends[c] = 1
              /\ Receives(c) = (IF ret[c] = << [err |-> CancelledError] >> THEN 0 ELSE 1)
              /\ Receives(c) = 0 => doneChan[c] = << bgerr[c] >>

C13_Witness ==
    \E c \in Calls :
        /\ pc[c] = "returned"
        /\ bgpc[c] = "done"
        /\ sends[c] = 1
        /\ Receives(c) = 0
        /\ failedAt[c] = "read"

\* C14, as claimed: a call whose goroutine sent its value before the context
\* was cancelled returns that value, never the cancellation error, also
\* when the context is cancelled before the supervisor takes the value.
C14_FirstEventDecides ==
    \A c \in Calls :
        (pc[c] = "returned" /\ closes[c] = 1 /\ first[c] = "done")
            => ret[c] = << [err |-> bgerr[c]] >>

\* C14, amended: when the select resolves with the context not cancelled, the
\* call returns the value its goroutine sent, never the cancellation error;
\* when the context is cancelled after the send and before the select
\* resolves, it returns that value or the cancellation error.
C14_ValueUnlessCancelledBeforeSelect ==
    /\ [][\A c \in Calls :
             (pc[c] = "select" /\ pc'[c] = "return" /\ ~ctx[c]) =>
                 /\ doneChan[c] # <<>>
                 /\ err'[c] = Head(doneChan[c])
                 /\ err'[c] = bgerr[c]]_vars
    /\ [](\A c \in Calls :
             (pc[c] = "returned" /\ closes[c] = 1 /\ ~ctx[c])
                 => ret[c] = << [err |-> bgerr[c]] >>)
    /\ [](\A c \in Calls :
             (pc[c] = "returned" /\ closes[c] = 1 /\ first[c] = "done") =>
                 \/ ret[c] = << [err |-> bgerr[c]] >>
                 \/ ctx[c] /\ ret[c] = << [err |-> CancelledError] >>)

C14_Witness ==
    \E c \in Calls :
        /\ first[c] = "done"
        /\ ctx[c]
        /\ pc[c] = "returned"
        /\ ret[c] = << [err |-> bgerr[c]] >>
        /\ bgerr[c] = DeadlineExceededError

\* C15: a call whose DialUDP fails returns that error and does nothing
\* more: no goroutine, no write, no deadline, no receive, no send, and no
\* socket to close.
C15_DialFailureStopsAtOnce ==
    \A c \in Calls :
        err[c] = AssociationError =>
            /\ pc[c] = "returned"
            /\ ret[c] = << [err |-> AssociationError] >>
            /\ conn[c] = "none"
            /\ bgpc[c] = "none"
            /\ copies[c] = 0
            /\ sent[c] = <<>>
            /\ ~armed[c]
            /\ reads[c] = 0
            /\ sends[c] = 0
            /\ closes[c] = 0

C15_Witness ==
    \E c \in Calls :
        /\ raddr[c] = "192.168.0.5:7090"
        /\ pc[c] = "returned"
        /\ ret[c] = << [err |-> AssociationError] >>
        /\ ctx[c]

\* the locals of one call of client and of its goroutine, with the state of
\* its socket
CallState(c) ==
    << pc[c], ctx[c], address[c], payload[c], raddr[c], conn[c], doneChan[c],
       err[c], ret[c], bgpc[c], remaining[c], sent[c], armed[c], inbox[c],
       rcvd[c], bgerr[c] >>

\* C16: two calls share no state. No step changes the locals, the socket or
\* the channel of two calls at once; a socket is closed only by the return of
\* its own call; and a call receives the echo only of what it wrote itself.
C16_CallsShareNothing ==
    /\ [][\A c, d \in Calls :
             c # d => (CallState(c)' = CallState(c) \/ CallState(d)' = CallState(d))]_vars
    /\ [][\A c \in Calls :
             conn'[c] # conn[c] =>
                 \A d \in Calls \ {c} : pc'[d] = pc[d] /\ ret'[d] = ret[d]]_vars
    /\ [](\A c \in Calls :
             /\ conn[c] = "closed" => pc[c] = "returned"
             /\ \A i \in DOMAIN rcvd[c] :
                   rcvd[c][i].echo => \E j \in DOMAIN sent[c] : sent[c][j] = rcvd[c][i].len)

\* one call was cancelled and has closed its socket while its goroutine still
\* runs; the other call, overlapping it, has returned the echo of its payload
C16_Witness ==
    \E c, d \in Calls :
        /\ c # d
        /\ ret[c] = << [err |-> CancelledError] >>
        /\ conn[c] = "closed"
        /\ bgpc[c] \notin { "none", "done" }
        /\ ret[d] = << [err |-> ErrNil] >>
        /\ conn[d] = "closed"
        /\ rcvd[d] # <<>> /\ Head(rcvd[d]).echo

\* C17: in a call with an empty payload io.Copy returns no error, the read
\* deadline is armed and ReadFrom is called once; the call returns success,
\* a receive or deadline error, or the cancellation error.
C17_EmptyPayloadReachesRead ==
    \A c \in Calls :
        (pc[c] # "idle" /\ payload[c] = 0) =>
            /\ failedAt[c] # "copy"
            /\ bgpc[c] \in { "send", "done" } => (armed[c] /\ reads[c] = 1)
            /\ (pc[c] = "returned" /\ closes[c] = 1) =>
                  ret[c] \in { << [err |-> e] >> :
                                 e \in { ErrNil, ReceiveError, DeadlineExceededError,
                                         CancelledError } }

\* C18: a call whose supervisor took the goroutine's value returns that
\* value: nil exactly when io.Copy, SetReadDeadline and ReadFrom all
\* succeeded, and otherwise the error of the one step that failed.
C18_CompletionValueUnchanged ==
    \A c \in Calls :
        Receives(c) = 1 =>
            /\ err[c] = bgerr[c]
            /\ pc[c] = "returned" => ret[c] = << [err |-> bgerr[c]] >>
            /\ err[c] = ErrNil <=> failedAt[c] = "none"
            /\ failedAt[c] = "none" =>
                  (remaining[c] = 0 /\ armed[c] /\ Len(rcvd[c]) = 1)
            /\ failedAt[c] = "copy" => (err[c] = TransmitError /\ ~armed[c])
            /\ failedAt[c] = "arm" => (err[c] = ErrNetClosing /\ reads[c] = 0)
            /\ failedAt[c] = "read" =>
                  (err[c] \in { ReceiveError, DeadlineExceededError } /\ rcvd[c] = <<>>)

C18_Witness ==
    \E c \in Calls :
        /\ Receives(c) = 1
        /\ failedAt[c] = "read"
        /\ ret[c] = << [err |-> ReceiveError] >>

\* C19: the count of bytes received is the smaller of the reply's length and
\* the 1024 bytes of the buffer, and a longer reply is cut to 1024 bytes with
\* the exchange still ending in success.
C19_ReplyCutToBuffer ==
    \A c \in Calls :
        rcvd[c] # <<>> =>
            LET r == Head(rcvd[c]) IN
                /\ r.nRead <= udpBufferSize
                /\ r.nRead = (IF r.len > udpBufferSize THEN udpBufferSize ELSE r.len)
                /\ failedAt[c] = "none"
                /\ bgerr[c] = ErrNil
                /\ (pc[c] = "returned" /\ Receives(c) = 1) => ret[c] = << [err |-> ErrNil] >>

C19_Witness ==
    \E c \in Calls :
        /\ rcvd[c] # <<>>
        /\ Head(rcvd[c]).len = udpBufferSize + 1
        /\ Head(rcvd[c]).nRead = udpBufferSize
        /\ ret[c] = << [err |-> ErrNil] >>

\* C20: what a call reads comes from the peer it dialed: a call that ends in
\* success has read a datagram of its raddr, and a datagram of another
\* sender changes nothing in the call, which goes on waiting.
C20_OnlyDialedPeerIsRead ==
    /\ [](\A c \in Calls :
             /\ \A i \in DOMAIN inbox[c] : inbox[c][i].from = raddr[c]
             /\ \A i \in DOMAIN rcvd[c] : rcvd[c][i].addr = raddr[c]
             /\ ret[c] = << [err |-> ErrNil] >> =>
                   (rcvd[c] # <<>> /\ Head(rcvd[c]).addr = raddr[c]))
    /\ [][\A c \in Calls :
             (strayed'[c] /\ ~strayed[c]) => UNCHANGED << callVars, bgVars >>]_vars

C20_Witness ==
    \E c \in Calls :
        /\ strayed[c]
        /\ NoReplyYet(c)
        /\ ret[c] = << [err |-> DeadlineExceededError] >>

====
